---------------------------- MODULE Spec2Model ----------------------------
(***************************************************************************)
(* Model of package hash of haleyrc/lib: the value type Hash with New,     *)
(* Compare and LogValue (src/hash/hash.go), and the free functions         *)
(* Generate and Check (src/unnamed/part_000).  Both surfaces are thin      *)
(* wrappers around golang.org/x/crypto/bcrypt, so the model carries the    *)
(* behaviour of bcrypt.GenerateFromPassword and                            *)
(* bcrypt.CompareHashAndPassword that the wrappers expose: the digest      *)
(* layout "$2a$10$" ++ 22 salt characters ++ 31 hash characters, the       *)
(* parser newFromHash, the 72 byte key schedule, and the errors.           *)
(*                                                                         *)
(* A byte is a sequence of integers.  A concrete byte b is <<b>>.  The     *)
(* Blowfish computation is idealised: the 31 characters of the hash are    *)
(* symbolic, <<HashSym, x, y, z>>, and together they spell the triple      *)
(* (cost, decoded salt, 72 key bytes) they were computed from, so two      *)
(* hashes are equal exactly when they were computed from the same triple.  *)
(***************************************************************************)
EXTENDS Integers, Sequences, FiniteSets, TLC

VARIABLES cur, src, alt, last, store, pc, loc, res

vars == <<cur, src, alt, last, store, pc, loc, res>>

----------------------------------------------------------------------------
(* Bounds of the model. *)

\* Longest short secret enumerated over SecretAlphabet.
MaxSecretLen == 1

\* Number of Hash values the concurrent callers may create.
MaxStore == 2

----------------------------------------------------------------------------
(* Constants of golang.org/x/crypto/bcrypt, reached through the calls.     *)

DefaultCost == 10
MinCost == 4
MaxCost == 31
majorVersion == 50
minorVersion == 97
maxSaltSize == 16
encodedSaltSize == 22
encodedHashSize == 31
minHashSize == 59
MaxPasswordLen == 72
KeyScheduleBytes == 72
HashSym == 256
Dollar == 36

----------------------------------------------------------------------------
(* Bytes and strings. *)

B(b) == <<b>>

IsConcrete(x) == Len(x) = 1

Val(x) == IF IsConcrete(x) THEN x[1] ELSE HashSym

Rep(b, n) == [i \in 1..n |-> b]

Bytes(s) == [i \in 1..Len(s) |-> B(s[i])]

Take(s, n) == SubSeq(s, 1, IF n < Len(s) THEN n ELSE Len(s))

Drop(s, n) == SubSeq(s, n + 1, Len(s))

\* The value of a one-element set.  Only({e(x) : x \in {v}}) evaluates v
\* once and names the result x.
Only(S) == CHOOSE x \in S : TRUE

\* strings.Contains on sequences of characters.
Contains(s, sub) ==
    \E i \in 0..(Len(s) - Len(sub)) : SubSeq(s, i + 1, i + Len(sub)) = sub

----------------------------------------------------------------------------
(* bcrypt's base64 dialect: alphabet "./A-Za-z0-9", no padding.            *)

\* Index of an ASCII code in the alphabet, -1 when it is not in it.
AlphaIndex(c) ==
    IF c = 46 THEN 0
    ELSE IF c = 47 THEN 1
    ELSE IF c >= 65 /\ c <= 90 THEN c - 63
    ELSE IF c >= 97 /\ c <= 122 THEN c - 69
    ELSE IF c >= 48 /\ c <= 57 THEN c + 6
    ELSE -1

AlphaChar(i) ==
    IF i = 0 THEN 46
    ELSE IF i = 1 THEN 47
    ELSE IF i <= 27 THEN i + 63
    ELSE IF i <= 53 THEN i + 69
    ELSE i - 6

\* base64Encode: the bytes (integers 0..255) as alphabet characters, the
\* trailing "=" stripped.
base64Encode(b) ==
    LET n == Len(b)
        at(i) == IF i <= n THEN b[i] ELSE 0
        sextet(j) ==
            LET q == ((6 * j) \div 8) + 1
                r == (6 * j) % 8
            IN  IF r = 0 THEN at(q) \div 4
                ELSE IF r = 6 THEN (at(q) % 4) * 16 + at(q + 1) \div 16
                ELSE IF r = 4 THEN (at(q) % 16) * 4 + at(q + 1) \div 64
                ELSE at(q) % 64
    IN  [j \in 1..((n * 8 + 5) \div 6) |-> B(AlphaChar(sextet(j - 1)))]

\* base64Decode: "=" is appended up to a multiple of four and the lenient
\* (non-strict) decoder runs: a byte outside the alphabet is a
\* CorruptInputError, left-over low bits of the last character are dropped.
base64Decode(s) ==
    LET n == Len(s)
        idx(i) == IF i <= n THEN AlphaIndex(Val(s[i])) ELSE 0
        octet(j) ==
            LET q == ((8 * j) \div 6) + 1
                r == (8 * j) % 6
            IN  IF r = 0 THEN idx(q) * 4 + idx(q + 1) \div 16
                ELSE IF r = 2 THEN (idx(q) % 16) * 16 + idx(q + 1) \div 4
                ELSE (idx(q) % 4) * 64 + idx(q + 1)
    IN  IF \E i \in 1..n : AlphaIndex(Val(s[i])) < 0
        THEN [err |-> "base64.CorruptInputError", val |-> <<>>]
        ELSE [err |-> "nil", val |-> [j \in 1..((6 * n) \div 8) |-> octet(j - 1)]]

----------------------------------------------------------------------------
(* golang.org/x/crypto/bcrypt as the wrappers reach it.                    *)

NoHashed == [major |-> 0, minor |-> 0, cost |-> 0, salt |-> <<>>, hash |-> <<>>]

checkCost(cost) ==
    IF cost < MinCost \/ cost > MaxCost THEN "InvalidCostError" ELSE "nil"

IsDigit(c) == c >= 48 /\ c <= 57

\* strconv.Atoi on the two cost characters: digits, with an optional sign.
Atoi(s) ==
    LET a == Val(s[1])
        b == Val(s[2])
    IN  IF IsDigit(a) /\ IsDigit(b)
        THEN [err |-> "nil", val |-> (a - 48) * 10 + (b - 48)]
        ELSE IF a = 43 /\ IsDigit(b) THEN [err |-> "nil", val |-> b - 48]
        ELSE IF a = 45 /\ IsDigit(b) THEN [err |-> "nil", val |-> 0 - (b - 48)]
        ELSE [err |-> "strconv.NumError", val |-> 0]

\* fmt.Sprintf("%02d", cost) for a checked cost.
Sprintf02d(cost) == <<B(48 + (cost \div 10)), B(48 + (cost % 10))>>

\* The key schedule reads the key and its trailing NUL cyclically, 18 words
\* of 4 bytes: the 72 bytes a password contributes.
ExpandKey(password) ==
    Only({[i \in 1..KeyScheduleBytes |-> ckey[((i - 1) % Len(ckey)) + 1]] :
          ckey \in {password \o <<0>>}})

\* The 31 characters that stand for the Blowfish output computed from t.
HashChars(t) ==
    [k \in 1..encodedHashSize |->
        <<HashSym,
          IF 3 * k - 2 <= Len(t) THEN t[3 * k - 2] ELSE 0,
          IF 3 * k - 1 <= Len(t) THEN t[3 * k - 1] ELSE 0,
          IF 3 * k <= Len(t) THEN t[3 * k] ELSE 0>>]

\* bcrypt(password, cost, salt): the 31 characters of the hash.
bcrypt(password, cost, salt) ==
    Only({IF csalt.err # "nil"
          THEN [err |-> csalt.err, val |-> <<>>]
          ELSE [err |-> "nil",
                val |-> Only({HashChars(t) :
                              t \in {<<cost>> \o csalt.val
                                       \o ExpandKey(password)}})] :
          csalt \in {base64Decode(salt)}})

\* (*hashed).Hash: the digest of a parsed or generated value, laid out in a
\* 60 byte array; a short hash leaves zero bytes, a long one is cut.
hashedHash(p) ==
    <<B(Dollar), B(p.major)>>
        \o (IF p.minor # 0 THEN <<B(p.minor)>> ELSE <<>>)
        \o <<B(Dollar)>> \o Sprintf02d(p.cost) \o <<B(Dollar)>>
        \o p.salt
        \o [i \in 1..encodedHashSize |->
               IF i <= Len(p.hash) THEN p.hash[i] ELSE B(0)]

\* rnd is what crypto/rand delivers: [ok, salt], salt of maxSaltSize bytes.
newFromPassword(password, cost, rnd) ==
    Only({IF checkCost(c) # "nil" THEN [err |-> checkCost(c), p |-> NoHashed]
          ELSE IF ~rnd.ok THEN [err |-> "rand.Reader", p |-> NoHashed]
          ELSE Only({Only({IF h.err # "nil"
                           THEN [err |-> h.err, p |-> NoHashed]
                           ELSE [err |-> "nil",
                                 p |-> [major |-> majorVersion,
                                        minor |-> minorVersion,
                                        cost |-> c, salt |-> salt,
                                        hash |-> h.val]] :
                           h \in {bcrypt(password, c, salt)}}) :
                     salt \in {base64Encode(rnd.salt)}}) :
          c \in {IF cost < MinCost THEN DefaultCost ELSE cost}})

GenerateFromPassword(password, cost, rnd) ==
    IF Len(password) > MaxPasswordLen
    THEN [err |-> "ErrPasswordTooLong", val |-> <<>>]
    ELSE Only({IF r.err # "nil" THEN [err |-> r.err, val |-> <<>>]
               ELSE [err |-> "nil", val |-> hashedHash(r.p)] :
               r \in {newFromPassword(password, cost, rnd)}})

\* decodeVersion reads sbytes[0], sbytes[1], sbytes[2] in this order; an
\* index past the end is a run-time panic.
decodeVersion(sbytes) ==
    LET none == [panic |-> FALSE, err |-> "nil", n |-> 0, major |-> 0, minor |-> 0]
    IN  IF Len(sbytes) < 1 THEN [none EXCEPT !.panic = TRUE]
        ELSE IF Val(sbytes[1]) # Dollar
        THEN [none EXCEPT !.err = "InvalidHashPrefixError"]
        ELSE IF Len(sbytes) < 2 THEN [none EXCEPT !.panic = TRUE]
        ELSE IF Val(sbytes[2]) > majorVersion
        THEN [none EXCEPT !.err = "HashVersionTooNewError"]
        ELSE IF Len(sbytes) < 3 THEN [none EXCEPT !.panic = TRUE]
        ELSE IF Val(sbytes[3]) # Dollar
        THEN [none EXCEPT !.n = 4, !.major = Val(sbytes[2]),
                          !.minor = Val(sbytes[3])]
        ELSE [none EXCEPT !.n = 3, !.major = Val(sbytes[2])]

\* decodeCost reads sbytes[0:2] and skips the byte after them.
decodeCost(sbytes) ==
    LET none == [panic |-> FALSE, err |-> "nil", n |-> 0, cost |-> 0]
    IN  IF Len(sbytes) < 2 THEN [none EXCEPT !.panic = TRUE]
        ELSE Only({IF a.err # "nil" THEN [none EXCEPT !.err = a.err]
                   ELSE IF checkCost(a.val) # "nil"
                   THEN [none EXCEPT !.err = checkCost(a.val)]
                   ELSE [none EXCEPT !.n = 3, !.cost = a.val] :
                   a \in {Atoi(Take(sbytes, 2))}})

\* The rest of newFromHash once the version is decoded: the cost, then 22
\* bytes of salt, then whatever is left as the hash.  A slice past the end
\* is a run-time panic.
decodeRest(hashedSecret, v) ==
    LET none == [panic |-> FALSE, err |-> "nil", p |-> NoHashed]
    IN  IF Len(hashedSecret) < v.n THEN [none EXCEPT !.panic = TRUE]
        ELSE Only({IF c.panic THEN [none EXCEPT !.panic = TRUE]
                   ELSE IF c.err # "nil" THEN [none EXCEPT !.err = c.err]
                   ELSE IF Len(hashedSecret) < v.n + c.n + encodedSaltSize
                   THEN [none EXCEPT !.panic = TRUE]
                   ELSE [none EXCEPT !.p =
                            [major |-> v.major, minor |-> v.minor,
                             cost |-> c.cost,
                             salt |-> SubSeq(hashedSecret, v.n + c.n + 1,
                                             v.n + c.n + encodedSaltSize),
                             hash |-> Drop(hashedSecret,
                                           v.n + c.n + encodedSaltSize)]] :
                   c \in {decodeCost(Drop(hashedSecret, v.n))}})

\* newFromHash without its length check: the decoders index past the end
\* of a short digest.
newFromHashUnchecked(hashedSecret) ==
    Only({IF v.panic THEN [panic |-> TRUE, err |-> "nil", p |-> NoHashed]
          ELSE IF v.err # "nil"
          THEN [panic |-> FALSE, err |-> v.err, p |-> NoHashed]
          ELSE decodeRest(hashedSecret, v) :
          v \in {decodeVersion(hashedSecret)}})

newFromHash(hashedSecret) ==
    LET none == [panic |-> FALSE, err |-> "nil", p |-> NoHashed]
    IN  IF Len(hashedSecret) < minHashSize
        THEN [none EXCEPT !.err = "ErrHashTooShort"]
        ELSE Only({IF v.panic THEN [none EXCEPT !.panic = TRUE]
                   ELSE IF v.err # "nil" THEN [none EXCEPT !.err = v.err]
                   ELSE decodeRest(hashedSecret, v) :
                   v \in {decodeVersion(hashedSecret)}})

\* subtle.ConstantTimeCompare: 1 when the slices have equal length and
\* equal contents, 0 otherwise.
ConstantTimeCompare(x, y) ==
    IF Len(x) # Len(y) THEN 0 ELSE IF x = y THEN 1 ELSE 0

\* The comparison of CompareHashAndPassword once the digest is parsed.
compareParsed(p, password) ==
    Only({IF other.err # "nil" THEN [panic |-> FALSE, err |-> other.err]
          ELSE IF ConstantTimeCompare(
                      hashedHash(p), hashedHash([p EXCEPT !.hash = other.val])) = 1
          THEN [panic |-> FALSE, err |-> "nil"]
          ELSE [panic |-> FALSE, err |-> "ErrMismatchedHashAndPassword"] :
          other \in {bcrypt(password, p.cost, p.salt)}})

CompareHashAndPassword(hashedPassword, password) ==
    Only({IF r.panic THEN [panic |-> TRUE, err |-> "nil"]
          ELSE IF r.err # "nil" THEN [panic |-> FALSE, err |-> r.err]
          ELSE compareParsed(r.p, password) :
          r \in {newFromHash(hashedPassword)}})

----------------------------------------------------------------------------
(* Error values and their texts.  A text is a sequence of characters.      *)

\* "hash: compare: hash mismatch: "
ComparePrefix ==
    <<"h", "a", "s", "h", ":", " ", "c", "o", "m", "p", "a", "r", "e", ":",
      " ", "h", "a", "s", "h", " ", "m", "i", "s", "m", "a", "t", "c", "h",
      ":", " ">>

\* "check failed: "
CheckPrefix ==
    <<"c", "h", "e", "c", "k", " ", "f", "a", "i", "l", "e", "d", ":", " ">>

\* "SECRET"
SECRET ==
    <<"S", "E", "C", "R", "E", "T">>

\* "mismatch"
MismatchWord ==
    <<"m", "i", "s", "m", "a", "t", "c", "h">>

\* "hash mismatch"
HashMismatchWords ==
    <<"h", "a", "s", "h", " ", "m", "i", "s", "m", "a", "t", "c", "h">>

\* The text of each bcrypt error, its format verbs left unexpanded.
Message(cause) ==
    CASE cause = "ErrMismatchedHashAndPassword" ->
        <<"c", "r", "y", "p", "t", "o", "/", "b", "c", "r", "y", "p", "t",
          ":", " ", "h", "a", "s", "h", "e", "d", "P", "a", "s", "s", "w",
          "o", "r", "d", " ", "i", "s", " ", "n", "o", "t", " ", "t", "h",
          "e", " ", "h", "a", "s", "h", " ", "o", "f", " ", "t", "h", "e",
          " ", "g", "i", "v", "e", "n", " ", "p", "a", "s", "s", "w", "o",
          "r", "d">>
      [] cause = "ErrHashTooShort" ->
        <<"c", "r", "y", "p", "t", "o", "/", "b", "c", "r", "y", "p", "t",
          ":", " ", "h", "a", "s", "h", "e", "d", "S", "e", "c", "r", "e",
          "t", " ", "t", "o", "o", " ", "s", "h", "o", "r", "t", " ", "t",
          "o", " ", "b", "e", " ", "a", " ", "b", "c", "r", "y", "p", "t",
          "e", "d", " ", "p", "a", "s", "s", "w", "o", "r", "d">>
      [] cause = "ErrPasswordTooLong" ->
        <<"b", "c", "r", "y", "p", "t", ":", " ", "p", "a", "s", "s", "w",
          "o", "r", "d", " ", "l", "e", "n", "g", "t", "h", " ", "e", "x",
          "c", "e", "e", "d", "s", " ", "7", "2", " ", "b", "y", "t", "e",
          "s">>
      [] cause = "InvalidHashPrefixError" ->
        <<"c", "r", "y", "p", "t", "o", "/", "b", "c", "r", "y", "p", "t",
          ":", " ", "b", "c", "r", "y", "p", "t", " ", "h", "a", "s", "h",
          "e", "s", " ", "m", "u", "s", "t", " ", "s", "t", "a", "r", "t",
          " ", "w", "i", "t", "h", " ", "'", "$", "'", ",", " ", "b", "u",
          "t", " ", "h", "a", "s", "h", "e", "d", "S", "e", "c", "r", "e",
          "t", " ", "s", "t", "a", "r", "t", "e", "d", " ", "w", "i", "t",
          "h", " ", "'", "%", "c", "'">>
      [] cause = "HashVersionTooNewError" ->
        <<"c", "r", "y", "p", "t", "o", "/", "b", "c", "r", "y", "p", "t",
          ":", " ", "b", "c", "r", "y", "p", "t", " ", "a", "l", "g", "o",
          "r", "i", "t", "h", "m", " ", "v", "e", "r", "s", "i", "o", "n",
          " ", "'", "%", "c", "'", " ", "r", "e", "q", "u", "e", "s", "t",
          "e", "d", " ", "i", "s", " ", "n", "e", "w", "e", "r", " ", "t",
          "h", "a", "n", " ", "c", "u", "r", "r", "e", "n", "t", " ", "v",
          "e", "r", "s", "i", "o", "n", " ", "'", "%", "c", "'">>
      [] cause = "InvalidCostError" ->
        <<"c", "r", "y", "p", "t", "o", "/", "b", "c", "r", "y", "p", "t",
          ":", " ", "c", "o", "s", "t", " ", "%", "d", " ", "i", "s", " ",
          "o", "u", "t", "s", "i", "d", "e", " ", "a", "l", "l", "o", "w",
          "e", "d", " ", "r", "a", "n", "g", "e", " ", "(", "%", "d", ",",
          "%", "d", ")">>
      [] cause = "strconv.NumError" ->
        <<"s", "t", "r", "c", "o", "n", "v", ".", "A", "t", "o", "i", ":",
          " ", "p", "a", "r", "s", "i", "n", "g", " ", "%", "q", ":", " ",
          "i", "n", "v", "a", "l", "i", "d", " ", "s", "y", "n", "t", "a",
          "x">>
      [] cause = "base64.CorruptInputError" ->
        <<"i", "l", "l", "e", "g", "a", "l", " ", "b", "a", "s", "e", "6",
          "4", " ", "d", "a", "t", "a", " ", "a", "t", " ", "i", "n", "p",
          "u", "t", " ", "b", "y", "t", "e", " ", "%", "d">>
      [] cause = "rand.Reader" ->
        <<"u", "n", "e", "x", "p", "e", "c", "t", "e", "d", " ", "E", "O",
          "F">>
      [] OTHER -> <<>>

\* The nil error.
NilError == [prefix |-> <<>>, wrapped |-> "nil"]

\* fmt.Errorf(prefix + "%w", err): the text is the prefix followed by the
\* text of err, and err stays reachable through errors.Unwrap.
Errorf(prefix, cause) == [prefix |-> prefix, wrapped |-> cause]

\* error.Error()
ErrorText(e) == e.prefix \o Message(e.wrapped)

\* errors.Is(e, target)
ErrorsIs(e, target) == e.wrapped = target

----------------------------------------------------------------------------
(* Package hash: the value type (src/hash/hash.go) and the free functions  *)
(* (src/unnamed/part_000).                                                 *)

\* The zero value Hash{}.
ZeroHash == [value |-> <<>>]

\* New with the error of GenerateFromPassword dropped instead of raised.
NewSwallow(s, rnd) ==
    Only({[panic |-> FALSE, cause |-> "nil", hash |-> [value |-> r.val]] :
          r \in {GenerateFromPassword(s, DefaultCost, rnd)}})

\* New returns a one-way hash of s, or panics with bcrypt's error.
New(s, rnd) ==
    Only({IF r.err # "nil"
          THEN [panic |-> TRUE, cause |-> r.err, hash |-> ZeroHash]
          ELSE [panic |-> FALSE, cause |-> "nil", hash |-> [value |-> r.val]] :
          r \in {GenerateFromPassword(s, DefaultCost, rnd)}})

\* Compare with the two arguments of CompareHashAndPassword exchanged.
CompareSwapped(h, o) ==
    Only({IF r.panic THEN [panic |-> TRUE, err |-> NilError]
          ELSE IF r.err # "nil"
          THEN [panic |-> FALSE, err |-> Errorf(ComparePrefix, r.err)]
          ELSE [panic |-> FALSE, err |-> NilError] :
          r \in {CompareHashAndPassword(
                     Bytes(o), [i \in 1..Len(h.value) |-> Val(h.value[i])])}})

\* Compare with the error wrapped under the text Check uses.
CompareCheckText(h, o) ==
    Only({IF r.panic THEN [panic |-> TRUE, err |-> NilError]
          ELSE IF r.err # "nil"
          THEN [panic |-> FALSE, err |-> Errorf(CheckPrefix, r.err)]
          ELSE [panic |-> FALSE, err |-> NilError] :
          r \in {CompareHashAndPassword(h.value, o)}})

\* Compare wraps every error of CompareHashAndPassword the same way.
Compare(h, o) ==
    Only({IF r.panic THEN [panic |-> TRUE, err |-> NilError]
          ELSE IF r.err # "nil"
          THEN [panic |-> FALSE, err |-> Errorf(ComparePrefix, r.err)]
          ELSE [panic |-> FALSE, err |-> NilError] :
          r \in {CompareHashAndPassword(h.value, o)}})

\* LogValue rendering the leading characters of the digest, "$2a$".
LogValueRaw(h) ==
    [i \in 1..Len(Take(h.value, 4)) |->
        IF Val(h.value[i]) = Dollar THEN "$"
        ELSE IF Val(h.value[i]) = majorVersion THEN "2" ELSE "a"]

\* LogValue returns slog.StringValue("SECRET").
LogValue(h) == SECRET

\* Generate returns the digest as a string, or panics with bcrypt's error.
Generate(s, rnd) ==
    Only({IF r.err # "nil"
          THEN [panic |-> TRUE, cause |-> r.err, str |-> <<>>]
          ELSE [panic |-> FALSE, cause |-> "nil", str |-> r.val] :
          r \in {GenerateFromPassword(s, DefaultCost, rnd)}})

Check(guess, hash) ==
    Only({IF r.panic THEN [panic |-> TRUE, err |-> NilError]
          ELSE IF r.err # "nil"
          THEN [panic |-> FALSE, err |-> Errorf(CheckPrefix, r.err)]
          ELSE [panic |-> FALSE, err |-> NilError] :
          r \in {CompareHashAndPassword(hash, guess)}})

----------------------------------------------------------------------------
(* Inputs. *)

\* Bytes of the enumerated secrets: NUL and "a".
SecretAlphabet == {0, 97}

ShortSecrets ==
    UNION {[1..n -> SecretAlphabet] : n \in 0..MaxSecretLen}

\* "a", NUL, "a": a secret that repeats under the cyclic key schedule.
NulSecrets == {<<97, 0, 97>>}

\* Secrets at and just above bcrypt's length limit.
LongSecrets == {Rep(97, MaxPasswordLen), Rep(97, MaxPasswordLen + 1)}

Secrets == ShortSecrets \cup NulSecrets \cup LongSecrets

Salt(k) == [i \in 1..maxSaltSize |-> (37 * k + 11 * i) % 256]

\* What crypto/rand can deliver: one of two salts, or a read error.
RandOutcomes ==
    {[ok |-> TRUE, salt |-> Salt(k)] : k \in {1, 2}}
        \cup {[ok |-> FALSE, salt |-> Rep(0, maxSaltSize)]}

\* The bytes a corrupted digest may hold in place of the original: "!",
\* "1" and "b".
FlipBytes == {33, 49, 98}

----------------------------------------------------------------------------
(* One caller.  cur is the digest the caller holds, as a Hash or as the    *)
(* string it stored; src is the secret it was generated from and alt what  *)
(* happened to it since ("zero": nothing generated yet, the zero Hash;     *)
(* "made"; "trunc"; "flip").  last is the call that ended last: its        *)
(* argument, whether it panicked, the error it returned, the bcrypt error  *)
(* behind a panic, and the value LogValue rendered.                        *)

NoCall ==
    [op |-> "none", arg |-> <<>>, rndok |-> TRUE, panic |-> FALSE,
     cause |-> "nil", err |-> NilError, log |-> <<>>]

SeqInit ==
    /\ cur = [api |-> "Hash", value |-> ZeroHash.value]
    /\ src = <<>>
    /\ alt = "zero"
    /\ last = NoCall

ConcIdle ==
    /\ store = <<>>
    /\ pc = <<>>
    /\ loc = <<>>
    /\ res = <<>>

SeqVars == <<cur, src, alt, last>>

ConcVars == <<store, pc, loc, res>>

\* A digest is created once and consumed many times: the caller generates
\* while it holds none.  A panic leaves it holding none.
DoNew(s, rnd) ==
    /\ alt = "zero"
    /\ \E r \in {New(s, rnd)} :
        /\ last' = [NoCall EXCEPT !.op = "New", !.arg = s, !.rndok = rnd.ok,
                                  !.panic = r.panic, !.cause = r.cause]
        /\ IF r.panic
           THEN UNCHANGED <<cur, src, alt>>
           ELSE /\ cur' = [api |-> "Hash", value |-> r.hash.value]
                /\ src' = s
                /\ alt' = "made"
    /\ UNCHANGED ConcVars

DoGenerate(s, rnd) ==
    /\ alt = "zero"
    /\ \E r \in {Generate(s, rnd)} :
        /\ last' = [NoCall EXCEPT !.op = "Generate", !.arg = s,
                                  !.rndok = rnd.ok, !.panic = r.panic,
                                  !.cause = r.cause]
        /\ IF r.panic
           THEN UNCHANGED <<cur, src, alt>>
           ELSE /\ cur' = [api |-> "string", value |-> r.str]
                /\ src' = s
                /\ alt' = "made"
    /\ UNCHANGED ConcVars

DoCompare(o) ==
    /\ cur.api = "Hash"
    /\ \E r \in {Compare([value |-> cur.value], o)} :
           last' = [NoCall EXCEPT !.op = "Compare", !.arg = o,
                                  !.panic = r.panic, !.err = r.err]
    /\ UNCHANGED <<cur, src, alt>>
    /\ UNCHANGED ConcVars

DoCheck(guess) ==
    /\ cur.api = "string"
    /\ \E r \in {Check(guess, cur.value)} :
           last' = [NoCall EXCEPT !.op = "Check", !.arg = guess,
                                  !.panic = r.panic, !.err = r.err]
    /\ UNCHANGED <<cur, src, alt>>
    /\ UNCHANGED ConcVars

DoLogValue ==
    /\ cur.api = "Hash"
    /\ last' = [NoCall EXCEPT !.op = "LogValue",
                              !.log = LogValue([value |-> cur.value])]
    /\ UNCHANGED <<cur, src, alt>>
    /\ UNCHANGED ConcVars

\* The storage layer hands back a stored digest cut to its first n bytes.
Truncate(n) ==
    /\ cur.api = "string"
    /\ alt = "made"
    /\ n < Len(cur.value)
    /\ cur' = [cur EXCEPT !.value = Take(cur.value, n)]
    /\ alt' = "trunc"
    /\ last' = NoCall
    /\ UNCHANGED src
    /\ UNCHANGED ConcVars

\* The storage layer hands back a stored digest with byte i changed to b.
FlipByte(i, b) ==
    /\ cur.api = "string"
    /\ alt = "made"
    /\ i \in 1..Len(cur.value)
    /\ cur.value[i] # B(b)
    /\ cur' = [cur EXCEPT !.value[i] = B(b)]
    /\ alt' = "flip"
    /\ last' = NoCall
    /\ UNCHANGED src
    /\ UNCHANGED ConcVars

Init == SeqInit /\ ConcIdle

Next ==
    \/ \E s \in Secrets, rnd \in RandOutcomes : DoNew(s, rnd)
    \/ \E s \in Secrets, rnd \in RandOutcomes : DoGenerate(s, rnd)
    \/ \E o \in Secrets : DoCompare(o)
    \/ \E guess \in Secrets : DoCheck(guess)
    \/ DoLogValue
    \/ \E n \in 0..(minHashSize + 1) : Truncate(n)
    \/ \E i \in 1..(minHashSize + 1), b \in FlipBytes : FlipByte(i, b)

Spec == Init /\ [][Next]_vars

----------------------------------------------------------------------------
(* Claims about one caller, checked under Spec.                            *)

Mismatch == "ErrMismatchedHashAndPassword"

IsVerify == last.op \in {"Compare", "Check"}

IsGeneration == last.op \in {"New", "Generate"}

\* C1 as stated: for every non-empty secret s, whatever its length and
\* whatever the salt, generating from s returns a digest and verifying s
\* against a digest generated from s returns nil.
C1_RoundTripAnyLength ==
    /\ (IsGeneration /\ Len(last.arg) > 0 /\ last.rndok) => ~last.panic
    /\ (IsVerify /\ alt = "made" /\ last.arg = src /\ Len(src) > 0)
           => (~last.panic /\ last.err = NilError)

\* C1 amended: for every non-empty secret s of at most 72 bytes, whatever
\* the salt, generating from s returns a digest, and verifying s against a
\* digest generated from s returns nil, for New/Compare and Generate/Check.
C1_RoundTrip ==
    /\ (IsGeneration /\ Len(last.arg) > 0 /\ Len(last.arg) <= MaxPasswordLen
            /\ last.rndok) => ~last.panic
    /\ (IsVerify /\ alt = "made" /\ last.arg = src /\ Len(src) > 0)
           => (~last.panic /\ last.err = NilError)

\* A 72 byte secret compared with its own hash.
C1_Witness ==
    /\ last.op = "Compare"
    /\ alt = "made"
    /\ last.arg = src
    /\ Len(src) = MaxPasswordLen
    /\ last.err = NilError

\* C2: for every pair of distinct (non-empty) secrets s1 # s2, verifying s2
\* against a digest generated from s1 returns an error that is the Mismatch
\* failure, for Compare and for Check.
C2_DistinctSecretsMismatch ==
    (IsVerify /\ alt = "made" /\ last.arg # src /\ Len(src) > 0
        /\ Len(last.arg) > 0)
        => (~last.panic /\ ErrorsIs(last.err, Mismatch))

\* C3: verifying the original secret against a valid digest that was
\* truncated or had one byte changed never returns nil.
C3_CorruptedNeverMatches ==
    (last.op = "Check" /\ alt \in {"trunc", "flip"} /\ last.arg = src)
        => last.err # NilError

\* The layout of a bcrypt digest: "$2", a minor version letter, "$", a two
\* digit cost within range, "$", 22 salt characters and 31 hash characters
\* of the alphabet.
WellFormed(d) ==
    /\ Len(d) = 7 + encodedSaltSize + encodedHashSize
    /\ d[1] = B(Dollar)
    /\ d[2] = B(majorVersion)
    /\ Val(d[3]) \in {97, 98, 120, 121}
    /\ d[4] = B(Dollar)
    /\ IsDigit(Val(d[5]))
    /\ IsDigit(Val(d[6]))
    /\ checkCost((Val(d[5]) - 48) * 10 + (Val(d[6]) - 48)) = "nil"
    /\ d[7] = B(Dollar)
    /\ \A i \in 8..Len(d) : ~IsConcrete(d[i]) \/ AlphaIndex(Val(d[i])) >= 0

\* C4: verifying against a malformed digest (too short, the zero Hash,
\* wrong tag, wrong encoding) returns an error that is not the Mismatch
\* failure, so the two failures are never the same outcome.
C4_InvalidDigestDistinct ==
    (IsVerify /\ ~WellFormed(cur.value))
        => (last.err # NilError /\ ~ErrorsIs(last.err, Mismatch))

\* C5: Compare and Check never panic, whatever the secret and the digest
\* (valid, malformed, empty): they return nil, or an error that wraps the
\* error of the underlying comparison.
C5_VerifyNeverPanics ==
    IsVerify =>
        /\ ~last.panic
        /\ \/ last.err = NilError
           \/ /\ last.err.wrapped # "nil"
              /\ last.err.prefix \in {ComparePrefix, CheckPrefix}

\* Check on a digest truncated to nothing returns bcrypt's error.
C5_Witness ==
    /\ last.op = "Check"
    /\ alt = "trunc"
    /\ cur.value = <<>>
    /\ ErrorsIs(last.err, "ErrHashTooShort")

\* The first seven bytes of a digest made at the default cost: "$2a$10$".
DefaultHeader ==
    <<B(Dollar), B(majorVersion), B(minorVersion), B(Dollar)>>
        \o Sprintf02d(DefaultCost) \o <<B(Dollar)>>

\* C6: New and Generate never return an error or a partial digest: they
\* panic exactly when the primitive reports an error (a secret longer than
\* 72 bytes, a failed read of the salt), and when they return, the value is
\* the complete digest the primitive produced at the default cost.
C6_GeneratePanicsOrCompletes ==
    IsGeneration =>
        /\ last.panic <=> (Len(last.arg) > MaxPasswordLen \/ ~last.rndok)
        /\ last.panic <=> (last.cause # "nil")
        /\ ~last.panic =>
              /\ alt = "made"
              /\ src = last.arg
              /\ Len(cur.value) = 7 + encodedSaltSize + encodedHashSize
              /\ Take(cur.value, 7) = DefaultHeader
              /\ \E rnd \in RandOutcomes :
                    GenerateFromPassword(last.arg, DefaultCost, rnd)
                        = [err |-> "nil", val |-> cur.value]

\* New panics on a secret bcrypt rejects as too long.
C6_Witness ==
    /\ last.op = "New"
    /\ last.panic
    /\ last.cause = "ErrPasswordTooLong"

\* C7 as stated: every Mismatch error returned by Compare or by Check has a
\* text that contains "mismatch".
C7_MismatchTextBoth ==
    (IsVerify /\ ErrorsIs(last.err, Mismatch))
        => Contains(ErrorText(last.err), MismatchWord)

\* C7 amended: every Mismatch error returned by Compare has a text that
\* contains "hash mismatch"; the Mismatch error returned by Check reads
\* "check failed: " followed by bcrypt's text, without the word "mismatch".
C7_MismatchText ==
    /\ (last.op = "Compare" /\ ErrorsIs(last.err, Mismatch))
           => Contains(ErrorText(last.err), HashMismatchWords)
    /\ (last.op = "Check" /\ ErrorsIs(last.err, Mismatch))
           => /\ ErrorText(last.err) = CheckPrefix \o Message(Mismatch)
              /\ ~Contains(ErrorText(last.err), MismatchWord)

\* Compare with a wrong secret returned the Mismatch error.
C7_Witness ==
    /\ last.op = "Compare"
    /\ alt = "made"
    /\ last.arg # src
    /\ ErrorsIs(last.err, Mismatch)

\* C8: LogValue renders the fixed placeholder "SECRET" for every Hash, so
\* the output carries no byte of the digest and is the same for any two
\* Hash values.
C8_Redaction == last.op = "LogValue" => last.log = SECRET

\* LogValue was called on a Hash that holds a generated digest.
C8_Witness == last.op = "LogValue" /\ alt = "made" /\ Len(cur.value) > 0

----------------------------------------------------------------------------
(* Several callers.  store holds the digests New and Generate have         *)
(* returned, as a Hash or as a string, which every caller may verify       *)
(* against; Hash.value is a slice, so a Hash and its copies share the      *)
(* digest bytes, and a caller refers to a digest by its position in store  *)
(* (0: the zero Hash, the empty string).  pc is each caller's place in the *)
(* call it is in, loc its local variables, res what its last call          *)
(* returned.                                                               *)

Callers == {1, 2}

ConcSecrets == {<<0>>, <<97>>}

ConcRand ==
    {[ok |-> TRUE, salt |-> Salt(1)], [ok |-> FALSE, salt |-> Rep(0, maxSaltSize)]}

NoLocal ==
    [op |-> "none", h |-> 0, o |-> <<>>, gen |-> [err |-> "nil", val |-> <<>>],
     p |-> NoHashed, other |-> <<>>]

NoResult == [op |-> "none", h |-> 0, o |-> <<>>, panic |-> FALSE, err |-> NilError]

DigestAt(i) == IF i = 0 THEN ZeroHash.value ELSE store[i].value

\* Calls that will still add a digest to store.
Generating == {d \in Callers : pc[d] \in {"new", "generate"}}

ConcInit ==
    /\ SeqInit
    /\ store = <<>>
    /\ pc = [c \in Callers |-> "idle"]
    /\ loc = [c \in Callers |-> NoLocal]
    /\ res = [c \in Callers |-> NoResult]

\* New, line 18: the digest is generated into the local hashBytes.
CallNew(c, s, rnd) ==
    /\ pc[c] = "idle"
    /\ Len(store) + Cardinality(Generating) < MaxStore
    /\ loc' = [loc EXCEPT ![c] =
                  [NoLocal EXCEPT !.op = "New", !.o = s,
                                  !.gen = GenerateFromPassword(s, DefaultCost, rnd)]]
    /\ pc' = [pc EXCEPT ![c] = "new"]
    /\ res' = [res EXCEPT ![c] = NoResult]
    /\ UNCHANGED store
    /\ UNCHANGED SeqVars

\* New returning a Hash over one buffer that every digest shares.
NewReturnShared(c) ==
    /\ pc[c] = "new"
    /\ IF loc[c].gen.err # "nil"
       THEN /\ res' = [res EXCEPT ![c] = [NoResult EXCEPT !.op = "New",
                                                          !.panic = TRUE]]
            /\ UNCHANGED store
       ELSE /\ store' = [i \in 1..(Len(store) + 1) |->
                            [api |-> IF i <= Len(store) THEN store[i].api
                                     ELSE "Hash",
                             value |-> loc[c].gen.val]]
            /\ res' = [res EXCEPT ![c] = [NoResult EXCEPT !.op = "New",
                                                          !.h = Len(store) + 1]]
    /\ pc' = [pc EXCEPT ![c] = "idle"]
    /\ loc' = [loc EXCEPT ![c] = NoLocal]
    /\ UNCHANGED SeqVars

\* New, lines 19 to 30: panic on an error, else the new Hash is returned.
NewReturn(c) ==
    /\ pc[c] = "new"
    /\ IF loc[c].gen.err # "nil"
       THEN /\ res' = [res EXCEPT ![c] = [NoResult EXCEPT !.op = "New",
                                                          !.panic = TRUE]]
            /\ UNCHANGED store
       ELSE /\ store' = Append(store, [api |-> "Hash", value |-> loc[c].gen.val])
            /\ res' = [res EXCEPT ![c] = [NoResult EXCEPT !.op = "New",
                                                          !.h = Len(store) + 1]]
    /\ pc' = [pc EXCEPT ![c] = "idle"]
    /\ loc' = [loc EXCEPT ![c] = NoLocal]
    /\ UNCHANGED SeqVars

\* Generate: the digest is generated into the local hash.
CallGenerate(c, s, rnd) ==
    /\ pc[c] = "idle"
    /\ Len(store) + Cardinality(Generating) < MaxStore
    /\ loc' = [loc EXCEPT ![c] =
                  [NoLocal EXCEPT !.op = "Generate", !.o = s,
                                  !.gen = GenerateFromPassword(s, DefaultCost, rnd)]]
    /\ pc' = [pc EXCEPT ![c] = "generate"]
    /\ res' = [res EXCEPT ![c] = NoResult]
    /\ UNCHANGED store
    /\ UNCHANGED SeqVars

\* Generate: panic on an error, else the digest is returned as a string.
GenerateReturn(c) ==
    /\ pc[c] = "generate"
    /\ IF loc[c].gen.err # "nil"
       THEN /\ res' = [res EXCEPT ![c] = [NoResult EXCEPT !.op = "Generate",
                                                          !.panic = TRUE]]
            /\ UNCHANGED store
       ELSE /\ store' = Append(store, [api |-> "string", value |-> loc[c].gen.val])
            /\ res' = [res EXCEPT ![c] = [NoResult EXCEPT !.op = "Generate",
                                                          !.h = Len(store) + 1]]
    /\ pc' = [pc EXCEPT ![c] = "idle"]
    /\ loc' = [loc EXCEPT ![c] = NoLocal]
    /\ UNCHANGED SeqVars

\* Compare is called on Hash i with the guess o.
CallCompare(c, i, o) ==
    /\ pc[c] = "idle"
    /\ i \in 0..Len(store)
    /\ i > 0 => store[i].api = "Hash"
    /\ loc' = [loc EXCEPT ![c] = [NoLocal EXCEPT !.op = "Compare", !.h = i,
                                                 !.o = o]]
    /\ pc' = [pc EXCEPT ![c] = "parse"]
    /\ res' = [res EXCEPT ![c] = NoResult]
    /\ UNCHANGED store
    /\ UNCHANGED SeqVars

\* Check is called with the guess and the digest string i.
CallCheck(c, guess, i) ==
    /\ pc[c] = "idle"
    /\ i \in 0..Len(store)
    /\ i > 0 => store[i].api = "string"
    /\ loc' = [loc EXCEPT ![c] = [NoLocal EXCEPT !.op = "Check", !.h = i,
                                                 !.o = guess]]
    /\ pc' = [pc EXCEPT ![c] = "parse"]
    /\ res' = [res EXCEPT ![c] = NoResult]
    /\ UNCHANGED store
    /\ UNCHANGED SeqVars

\* What Compare or Check returns for the outcome r of
\* CompareHashAndPassword.
VerifyResult(c, r) ==
    [op |-> loc[c].op, h |-> loc[c].h, o |-> loc[c].o, panic |-> r.panic,
     err |-> IF r.panic \/ r.err = "nil" THEN NilError
             ELSE Errorf(IF loc[c].op = "Compare" THEN ComparePrefix
                         ELSE CheckPrefix, r.err)]

\* CompareHashAndPassword parses the digest bytes into its own copy of the
\* salt and the hash.
CompareParse(c) ==
    /\ pc[c] = "parse"
    /\ \E r \in {newFromHash(DigestAt(loc[c].h))} :
          IF r.panic \/ r.err # "nil"
          THEN /\ res' = [res EXCEPT ![c] =
                             VerifyResult(c, [panic |-> r.panic, err |-> r.err])]
               /\ pc' = [pc EXCEPT ![c] = "idle"]
               /\ loc' = [loc EXCEPT ![c] = NoLocal]
          ELSE /\ loc' = [loc EXCEPT ![c].p = r.p]
               /\ pc' = [pc EXCEPT ![c] = "hash"]
               /\ UNCHANGED res
    /\ UNCHANGED store
    /\ UNCHANGED SeqVars

\* CompareHashAndPassword hashes the guess with the parsed cost and salt.
CompareHash(c) ==
    /\ pc[c] = "hash"
    /\ \E other \in {bcrypt(loc[c].o, loc[c].p.cost, loc[c].p.salt)} :
          IF other.err # "nil"
          THEN /\ res' = [res EXCEPT ![c] =
                             VerifyResult(c, [panic |-> FALSE, err |-> other.err])]
               /\ pc' = [pc EXCEPT ![c] = "idle"]
               /\ loc' = [loc EXCEPT ![c] = NoLocal]
          ELSE /\ loc' = [loc EXCEPT ![c].other = other.val]
               /\ pc' = [pc EXCEPT ![c] = "cmp"]
               /\ UNCHANGED res
    /\ UNCHANGED store
    /\ UNCHANGED SeqVars

\* CompareHashAndPassword compares the two digests; Compare or Check
\* returns.
CompareFinish(c) ==
    /\ pc[c] = "cmp"
    /\ res' = [res EXCEPT ![c] =
                  VerifyResult(c,
                      [panic |-> FALSE,
                       err |-> IF ConstantTimeCompare(
                                      hashedHash(loc[c].p),
                                      hashedHash([loc[c].p EXCEPT
                                                     !.hash = loc[c].other])) = 1
                               THEN "nil" ELSE Mismatch])]
    /\ pc' = [pc EXCEPT ![c] = "idle"]
    /\ loc' = [loc EXCEPT ![c] = NoLocal]
    /\ UNCHANGED store
    /\ UNCHANGED SeqVars

ConcNext ==
    \/ \E c \in Callers, s \in ConcSecrets, rnd \in ConcRand : CallNew(c, s, rnd)
    \/ \E c \in Callers : NewReturn(c)
    \/ \E c \in Callers, s \in ConcSecrets, rnd \in ConcRand : CallGenerate(c, s, rnd)
    \/ \E c \in Callers : GenerateReturn(c)
    \/ \E c \in Callers, i \in 0..MaxStore, o \in ConcSecrets : CallCompare(c, i, o)
    \/ \E c \in Callers, i \in 0..MaxStore, o \in ConcSecrets : CallCheck(c, o, i)
    \/ \E c \in Callers : CompareParse(c)
    \/ \E c \in Callers : CompareHash(c)
    \/ \E c \in Callers : CompareFinish(c)

SpecConc == ConcInit /\ [][ConcNext]_vars

----------------------------------------------------------------------------
(* Claims about several callers, checked under SpecConc.                   *)

\* Every finished Compare or Check returned what it returns when it runs
\* alone on the same digest and guess.
SameAsAlone ==
    \A c \in Callers :
        /\ res[c].op = "Compare"
              => [panic |-> res[c].panic, err |-> res[c].err]
                     = Compare([value |-> DigestAt(res[c].h)], res[c].o)
        /\ res[c].op = "Check"
              => [panic |-> res[c].panic, err |-> res[c].err]
                     = Check(res[c].o, DigestAt(res[c].h))

\* No step changes or removes a digest that was returned.
DigestsKept ==
    /\ Len(store') >= Len(store)
    /\ \A i \in 1..Len(store) : store'[i] = store[i]

\* C9: under any interleaving of New, Generate, Compare and Check calls of
\* several callers, a digest is never modified after its creation, and
\* every verification returns the result it returns when run alone,
\* whatever verifications and generations ran before or beside it.
C9_Stateless == [](SameAsAlone) /\ [][DigestsKept]_vars

\* Caller 1's Compare has returned while caller 2 is in the middle of a
\* Compare on the same Hash, after two digests were created.
C9_Witness ==
    /\ Len(store) = MaxStore
    /\ res[1].op = "Compare"
    /\ res[1].h > 0
    /\ pc[2] = "cmp"
    /\ loc[2].op = "Compare"
    /\ loc[2].h = res[1].h

============================================================================
